---- MODULE Spec2Model ----
(***************************************************************************)
(* Model of the name-processing pipeline of app.py: text normalisation,    *)
(* brand excision, the Tversky character-set score (computed in IEEE-754   *)
(* binary64 as CPython does), the review flags and the column-selection    *)
(* handler that drives process_data.                                       *)
(*                                                                         *)
(* Strings are sequences of one-character strings.  Scores are kept as an  *)
(* integer number of hundredths (the value round(x, 2) denotes).           *)
(***************************************************************************)
EXTENDS Integers, Sequences, FiniteSets, TLC

(***************************************************************************)
(* Natural numbers of arbitrary size: little-endian sequences of limbs in  *)
(* base 2^20, without leading zero limbs.  They carry the 53-bit           *)
(* significands of Python floats.                                          *)
(***************************************************************************)
LimbBits == 20

Base == 1048576

RECURSIVE Pow2(_)
Pow2(k) == IF k = 0 THEN 1 ELSE 2 * Pow2(k - 1)

RECURSIVE BFromInt(_)
BFromInt(n) == IF n = 0 THEN <<>> ELSE <<n % Base>> \o BFromInt(n \div Base)

RECURSIVE BToInt(_)
BToInt(x) == IF x = <<>> THEN 0 ELSE Head(x) + Base * BToInt(Tail(x))

RECURSIVE BNorm(_)
BNorm(x) ==
    IF x = <<>> THEN <<>>
    ELSE IF x[Len(x)] = 0 THEN BNorm(SubSeq(x, 1, Len(x) - 1))
    ELSE x

RECURSIVE BAddC(_, _, _)
BAddC(x, y, c) ==
    IF x = <<>> /\ y = <<>> THEN (IF c = 0 THEN <<>> ELSE <<c>>)
    ELSE LET a == IF x = <<>> THEN 0 ELSE Head(x)
             b == IF y = <<>> THEN 0 ELSE Head(y)
             s == a + b + c
         IN  <<s % Base>> \o BAddC(IF x = <<>> THEN <<>> ELSE Tail(x),
                                   IF y = <<>> THEN <<>> ELSE Tail(y),
                                   s \div Base)

BAdd(x, y) == BAddC(x, y, 0)

RECURSIVE BSubC(_, _, _)
BSubC(x, y, c) ==
    IF x = <<>> THEN <<>>
    ELSE LET b == IF y = <<>> THEN 0 ELSE Head(y)
             d == Head(x) - b - c
         IN  <<IF d < 0 THEN d + Base ELSE d>>
             \o BSubC(Tail(x), IF y = <<>> THEN <<>> ELSE Tail(y),
                      IF d < 0 THEN 1 ELSE 0)

\* x - y for x >= y
BSub(x, y) == BNorm(BSubC(x, y, 0))

RECURSIVE BCmpFrom(_, _, _)
BCmpFrom(x, y, i) ==
    IF i = 0 THEN 0
    ELSE IF x[i] < y[i] THEN -1
    ELSE IF x[i] > y[i] THEN 1
    ELSE BCmpFrom(x, y, i - 1)

\* -1, 0 or 1 as x <, =, > y
BCmp(x, y) ==
    IF Len(x) < Len(y) THEN -1
    ELSE IF Len(x) > Len(y) THEN 1
    ELSE BCmpFrom(x, y, Len(x))

RECURSIVE BMulC(_, _, _)
BMulC(x, k, c) ==
    IF x = <<>> THEN BFromInt(c)
    ELSE LET p == Head(x) * k + c
         IN  <<p % Base>> \o BMulC(Tail(x), k, p \div Base)

\* x * k for a small k (k < 2048)
BMulSmall(x, k) == IF k = 0 THEN <<>> ELSE BMulC(x, k, 0)

BOdd(x) == x # <<>> /\ Head(x) % 2 = 1

RECURSIVE BShiftLeft(_, _)
BShiftLeft(x, k) ==
    IF x = <<>> \/ k = 0 THEN x
    ELSE IF k >= LimbBits THEN <<0>> \o BShiftLeft(x, k - LimbBits)
    ELSE IF k >= 10 THEN BMulSmall(BShiftLeft(x, k - 10), 1024)
    ELSE BMulSmall(x, Pow2(k))

\* the number of bits of n < Base
IntBitLen(n) ==
    IF n = 0 THEN 0 ELSE CHOOSE k \in 1 .. LimbBits : Pow2(k - 1) <= n /\ n < Pow2(k)

BBitLen(x) ==
    IF x = <<>> THEN 0 ELSE (Len(x) - 1) * LimbBits + IntBitLen(x[Len(x)])

\* floor(x / 2^k) for k < LimbBits; i runs down the limbs, c is what the
\* limb above leaves
RECURSIVE BShiftRightFrom(_, _, _, _)
BShiftRightFrom(x, k, i, c) ==
    IF i = 0 THEN <<>>
    ELSE BShiftRightFrom(x, k, i - 1, x[i] % Pow2(k))
         \o <<x[i] \div Pow2(k) + c * Pow2(LimbBits - k)>>

\* x shifted right by k bits, rounded to nearest, ties to even; guard is
\* the last bit shifted out so far, sticky tells whether anything below it
\* was set.  Whole limbs go first, then the remaining bits at once.
RECURSIVE RoundShift(_, _, _, _)
RoundShift(x, k, guard, sticky) ==
    IF k = 0
    THEN IF guard = 1 /\ (sticky \/ BOdd(x)) THEN BAdd(x, <<1>>) ELSE x
    ELSE IF x = <<>> THEN <<>>
    ELSE LET low == IF k >= LimbBits THEN Head(x) ELSE Head(x) % Pow2(k)
             half == IF k >= LimbBits THEN Base \div 2 ELSE Pow2(k - 1)
             g == low \div half
             st == sticky \/ guard = 1 \/ low % half # 0
             rest == IF k >= LimbBits THEN Tail(x)
                     ELSE BNorm(BShiftRightFrom(x, k, Len(x), 0))
             left == IF k >= LimbBits THEN k - LimbBits ELSE 0
         IN  IF st THEN RoundShift(rest, left, g, TRUE)
             ELSE RoundShift(rest, left, g, FALSE)

(***************************************************************************)
(* Python floats (IEEE-754 binary64, round to nearest even).  A finite     *)
(* non-negative float is [m, e] with value m * 2^e and m <= 2^53.  The     *)
(* exponents met here stay far from the subnormal and overflow ranges.     *)
(***************************************************************************)
MantBits == 53

\* the float nearest to m * 2^e (+ a non-zero tail below m when sticky)
FRound(m, e, sticky) ==
    LET L == BBitLen(m)
    IN  IF L <= MantBits THEN [m |-> m, e |-> e]
        ELSE [m |-> RoundShift(m, L - MantBits, 0, sticky),
              e |-> e + (L - MantBits)]

FFromInt(n) == [m |-> BFromInt(n), e |-> 0]

FIsZero(x) == x.m = <<>>

\* float * int
FMulInt(x, k) == FRound(BMulSmall(x.m, k), x.e, FALSE)

\* float + float
FAdd(x, y) ==
    IF FIsZero(x) THEN y
    ELSE IF FIsZero(y) THEN x
    ELSE LET e == IF x.e < y.e THEN x.e ELSE y.e
         IN  FRound(BAdd(BShiftLeft(x.m, x.e - e), BShiftLeft(y.m, y.e - e)),
                    e, FALSE)

\* restoring division: one more bit of the dividend
DivStep(st, bit, d) ==
    LET r == BAddC(st.r, st.r, bit)
    IN  IF BCmp(r, d) >= 0
        THEN [q |-> BAddC(st.q, st.q, 1), r |-> BSub(r, d), s |-> st.s]
        ELSE [q |-> BAdd(st.q, st.q), r |-> r, s |-> st.s]

RECURSIVE DivFeed(_, _)
DivFeed(n, d) ==
    IF n = 0 THEN [q |-> <<>>, r |-> <<>>, s |-> 0]
    ELSE DivStep(DivFeed(n \div 2, d), n % 2, d)

\* k more bits of quotient, the dividend continued with zeros; the run is
\* halved rather than stepped through, which keeps the evaluation shallow
RECURSIVE DivExtend(_, _, _)
DivExtend(st, d, k) ==
    IF k = 0 THEN st
    ELSE IF k = 1
    THEN LET nx == DivStep(st, 0, d) IN [nx EXCEPT !.s = st.s + 1]
    ELSE LET mid == DivExtend(st, d, k \div 2)
         IN  IF mid.r = <<>> THEN [mid EXCEPT !.q = BShiftLeft(mid.q, k - k \div 2),
                                              !.s = mid.s + (k - k \div 2)]
             ELSE DivExtend(mid, d, k - k \div 2)

\* int / float, for a non-zero divisor: the quotient is carried to more
\* than MantBits + 1 bits, the remainder tells whether it is exact
FDivInt(n, y) ==
    IF n = 0 THEN FFromInt(0)
    ELSE LET k == (MantBits + 3 + BBitLen(y.m)) - IntBitLen(n)
             st == DivExtend(DivFeed(n, y.m), y.m, IF k > 0 THEN k ELSE 0)
         IN  FRound(st.q, (0 - st.s) - y.e, st.r # <<>>)

\* round(x, 2) of a float, as a number of hundredths: the exact value of x
\* rounded to two decimals, ties to even
PyRound2(x) ==
    LET m == BMulSmall(x.m, 100)
    IN  IF x.e >= 0 THEN BToInt(BShiftLeft(m, x.e))
        ELSE BToInt(RoundShift(m, 0 - x.e, 0, FALSE))

\* float("t/10"): the float nearest to the decimal with t tenths
ParseTenths(t) == FDivInt(t, FFromInt(10))

(***************************************************************************)
(* Characters and Python's str / re operations on them.                    *)
(***************************************************************************)
LowerLetters ==
    <<"a", "b", "c", "d", "e", "f", "g", "h", "i", "j", "k", "l", "m",
      "n", "o", "p", "q", "r", "s", "t", "u", "v", "w", "x", "y", "z">>

UpperLetters ==
    <<"A", "B", "C", "D", "E", "F", "G", "H", "I", "J", "K", "L", "M",
      "N", "O", "P", "Q", "R", "S", "T", "U", "V", "W", "X", "Y", "Z">>

Range(s) == {s[i] : i \in DOMAIN s}

Digits == {"0", "1", "2", "3", "4", "5", "6", "7", "8", "9"}

Whitespace == {" ", "\t", "\n"}

IsDigit(c) == c \in Digits

IsLower(c) == c \in Range(LowerLetters)

IsUpper(c) == c \in Range(UpperLetters)

IsAlpha(c) == IsLower(c) \/ IsUpper(c)

\* \s
IsSpace(c) == c \in Whitespace

\* \w
IsWord(c) == IsAlpha(c) \/ IsDigit(c) \/ c = "_"

\* str.lower() on one character
Lower(c) ==
    IF IsUpper(c)
    THEN LowerLetters[CHOOSE i \in DOMAIN UpperLetters : UpperLetters[i] = c]
    ELSE c

\* str.upper() on one character
Upper(c) ==
    IF IsLower(c)
    THEN UpperLetters[CHOOSE i \in DOMAIN LowerLetters : LowerLetters[i] = c]
    ELSE c

StrLower(s) == [i \in DOMAIN s |-> Lower(s[i])]

\* s[i:] for a 1-based i
From(s, i) == SubSeq(s, i, Len(s))

\* the cell pandas holds for a missing value (float nan); never a string
NaN == <<"<NaN>">>

\* pd.notna
NotNa(x) == x # NaN

\* str(x) of a cell: a string is itself, the missing value prints as "nan"
PyStr(x) == IF x = NaN THEN <<"n", "a", "n">> ELSE x

\* str.strip()
RECURSIVE LStrip(_)
LStrip(s) == IF s # <<>> /\ IsSpace(Head(s)) THEN LStrip(Tail(s)) ELSE s

RECURSIVE RStrip(_)
RStrip(s) ==
    IF s # <<>> /\ IsSpace(s[Len(s)]) THEN RStrip(SubSeq(s, 1, Len(s) - 1))
    ELSE s

Strip(s) == RStrip(LStrip(s))

\* length of the longest run of digits at the head of s
RECURSIVE DigitRun(_)
DigitRun(s) ==
    IF s # <<>> /\ IsDigit(Head(s)) THEN 1 + DigitRun(Tail(s)) ELSE 0

\* length of the match of \$\d+(\.\d{1,2})? at the head of s, 0 if none
DollarMatch(s) ==
    IF s = <<>> \/ Head(s) # "$" THEN 0
    ELSE LET d == DigitRun(Tail(s))
             rest == From(s, d + 2)
             f == IF rest # <<>> /\ Head(rest) = "."
                  THEN DigitRun(Tail(rest)) ELSE 0
         IN  IF d = 0 THEN 0
             ELSE IF f = 0 THEN 1 + d
             ELSE 1 + d + 1 + (IF f > 2 THEN 2 ELSE f)

\* re.sub(r'\$\d+(\.\d{1,2})?', '', s)
RECURSIVE SubDollar(_)
SubDollar(s) ==
    IF s = <<>> THEN <<>>
    ELSE LET k == DollarMatch(s)
         IN  IF k > 0 THEN SubDollar(From(s, k + 1))
             ELSE <<Head(s)>> \o SubDollar(Tail(s))

\* re.sub(r'\s+', ' ', s)
RECURSIVE SubSpaces(_)
SubSpaces(s) ==
    IF s = <<>> THEN <<>>
    ELSE IF IsSpace(Head(s)) THEN <<" ">> \o SubSpaces(LStrip(s))
    ELSE <<Head(s)>> \o SubSpaces(Tail(s))

enhanced_clean_text(text) == Strip(SubSpaces(SubDollar(text)))

\* \b between s[p] and s[p+1] (p = 0 .. Len(s))
Boundary(s, p) ==
    (p >= 1 /\ IsWord(s[p])) # (p < Len(s) /\ IsWord(s[p + 1]))

\* the literal lit, ignoring case, at s[p+1 ..], with \b on both sides
WordAt(s, p, lit) ==
    /\ p + Len(lit) <= Len(s)
    /\ \A i \in DOMAIN lit : Lower(s[p + i]) = Lower(lit[i])
    /\ Boundary(s, p)
    /\ Boundary(s, p + Len(lit))

\* re.sub(r'\b' + re.escape(lit) + r'\b', repl, s, flags=re.IGNORECASE),
\* scanning from position p; an empty lit matches at every word boundary
RECURSIVE SubWordFrom(_, _, _, _)
SubWordFrom(s, p, lit, repl) ==
    IF p > Len(s) THEN <<>>
    ELSE IF WordAt(s, p, lit)
    THEN IF lit = <<>>
         THEN repl \o (IF p < Len(s) THEN <<s[p + 1]>> ELSE <<>>)
                   \o SubWordFrom(s, p + 1, lit, repl)
         ELSE repl \o SubWordFrom(s, p + Len(lit), lit, repl)
    ELSE (IF p < Len(s) THEN <<s[p + 1]>> ELSE <<>>)
         \o SubWordFrom(s, p + 1, lit, repl)

SubWord(s, lit, repl) == SubWordFrom(s, 0, lit, repl)

\* str.title(): a letter after a letter is lowered, any other letter raised
RECURSIVE TitleFrom(_, _)
TitleFrom(s, prevCased) ==
    IF s = <<>> THEN <<>>
    ELSE LET c == Head(s)
         IN  IF IsAlpha(c)
             THEN <<IF prevCased THEN Lower(c) ELSE Upper(c)>>
                  \o TitleFrom(Tail(s), TRUE)
             ELSE <<c>> \o TitleFrom(Tail(s), FALSE)

Title(s) == TitleFrom(s, FALSE)

IsPrefix(old, s) == Len(old) <= Len(s) /\ SubSeq(s, 1, Len(old)) = old

\* s.replace(old, '', 1): the first occurrence only
RECURSIVE ReplaceFirst(_, _)
ReplaceFirst(s, old) ==
    IF s = <<>> \/ old = <<>> THEN s
    ELSE IF IsPrefix(old, s) THEN From(s, Len(old) + 1)
    ELSE <<Head(s)>> \o ReplaceFirst(Tail(s), old)

\* s.replace(old, ''): every occurrence, left to right, not overlapping
RECURSIVE Replace(_, _)
Replace(s, old) ==
    IF s = <<>> \/ old = <<>> THEN s
    ELSE IF IsPrefix(old, s) THEN Replace(From(s, Len(old) + 1), old)
    ELSE <<Head(s)>> \o Replace(Tail(s), old)

\* ' '.join(parts)
RECURSIVE Join(_)
Join(parts) ==
    IF parts = <<>> THEN <<>>
    ELSE IF Len(parts) = 1 THEN parts[1]
    ELSE parts[1] \o <<" ">> \o Join(Tail(parts))

(***************************************************************************)
(* The similarity scorer nested in process_data.                           *)
(***************************************************************************)
\* clean_text: re.sub(r'[^a-zA-Z0-9\s]', '', text).lower()
clean_text(text) ==
    StrLower(SelectSeq(text, LAMBDA c : IsAlpha(c) \/ IsDigit(c) \/ IsSpace(c)))

\* total = intersection + alpha * differences_a + beta * differences_b
TverskyTotal(intersection, differences_a, differences_b, alpha, beta) ==
    FAdd(FAdd(FFromInt(intersection), FMulInt(alpha, differences_a)),
         FMulInt(beta, differences_b))

\* tversky_similarity with len(set_a) for the numerator
tversky_similarity_len_a(a, b, alpha, beta) ==
    LET set_a == Range(a)
        set_b == Range(b)
        total == TverskyTotal(Cardinality(set_a \cap set_b),
                              Cardinality(set_a \ set_b),
                              Cardinality(set_b \ set_a), alpha, beta)
    IN  IF FIsZero(total) THEN 0
        ELSE PyRound2(FDivInt(Cardinality(set_a), total))

\* tversky_similarity(a, b, alpha, beta), in hundredths
tversky_similarity(a, b, alpha, beta) ==
    LET set_a == Range(a)
        set_b == Range(b)
        intersection == Cardinality(set_a \cap set_b)
        differences_a == Cardinality(set_a \ set_b)
        differences_b == Cardinality(set_b \ set_a)
        total == TverskyTotal(intersection, differences_a, differences_b,
                              alpha, beta)
    IN  IF FIsZero(total) THEN 0 ELSE PyRound2(FDivInt(intersection, total))

\* " ".join([clean_text(str(add)) for add in additional_values if pd.notna(add)])
JoinedAux(additional_values) ==
    Join([i \in DOMAIN SelectSeq(additional_values, NotNa) |->
              clean_text(PyStr(SelectSeq(additional_values, NotNa)[i]))])

\* combined_text_similarity(a, b, additional_values), in hundredths
combined_text_similarity(a, b, additional_values, alpha, beta) ==
    LET ca == clean_text(PyStr(a))
        cb == clean_text(PyStr(b))
        combined_a == ca \o <<" ">> \o JoinedAux(additional_values)
        combined_b == cb \o <<" ">> \o JoinedAux(additional_values)
    IN  tversky_similarity(combined_a, combined_b, alpha, beta)

\* what round(jellyfish.jaro_winkler_similarity(..), 2) can be, in
\* hundredths: the library returns a similarity between 0 and 1
jaro_winkler_reassessment == 0 .. 100

\* Series.round(2) of a score that already has two decimals
SeriesRound2(h) == h

\* 'Y' if score <= 0.75 else 'N'
needs_review(score) == IF score <= 75 THEN "Y" ELSE "N"

(***************************************************************************)
(* The name separator.                                                     *)
(***************************************************************************)
\* the loop over abbreviation_mapping.items(), in the mapping's order
RECURSIVE ExpandAbbreviations(_, _)
ExpandAbbreviations(clean_name, abbreviation_mapping) ==
    IF abbreviation_mapping = <<>> THEN clean_name
    ELSE ExpandAbbreviations(
             SubWord(clean_name, Head(abbreviation_mapping).abbr,
                     Head(abbreviation_mapping).full_form),
             Tail(abbreviation_mapping))

clean_and_translate_raw_name(raw_name, brand_name, abbreviation_mapping) ==
    LET brand == IF NotNa(brand_name) THEN PyStr(brand_name) ELSE <<>>
        clean_name == enhanced_clean_text(raw_name)
        expanded == ExpandAbbreviations(clean_name, abbreviation_mapping)
    IN  Title(Strip(SubWord(expanded, brand, <<>>)))

\* f"{brand_name} {clean_name}"
recommend_storefront_name(raw_name, brand_name, abbreviation_mapping) ==
    PyStr(brand_name) \o <<" ">>
        \o clean_and_translate_raw_name(raw_name, brand_name,
                                        abbreviation_mapping)

\* row['recommended_storefront_name'].replace(row[storefront_brand_col], '').strip()
separated_storefront_name(recommended_name, brand_name) ==
    Strip(Replace(recommended_name, brand_name))

\* data['separated_brand_name'] = data[raw_brand_name_col]
separated_brand_name_raw(row) == PyStr(row.raw_brand)

\* data['separated_brand_name'] = data[storefront_brand_col]
separated_brand_name(row) == row.storefront_brand

(***************************************************************************)
(* process_data.  A table is a sequence of rows; a row is a record of      *)
(* cells raw_brand, raw_name, storefront_brand, storefront_name and aux    *)
(* (the cells of the three auxiliary columns).  cfg holds the arguments    *)
(* select_columns passes.                                                  *)
(***************************************************************************)
\* [x[col] for col in additional_cols if col]
AdditionalValues(row, additional_cols) ==
    [i \in DOMAIN additional_cols |-> row.aux[additional_cols[i]]]

\* data[storefront_brand_col].astype(str).fillna(''), line 51
AsTypeStr(data) ==
    [i \in DOMAIN data |->
        [data[i] EXCEPT !.storefront_brand = PyStr(data[i].storefront_brand)]]

\* the brand score after the optional reassessment: the values it can take
BrandScores(row, cfg) ==
    LET primary == combined_text_similarity(
                       separated_brand_name(row), row.storefront_brand,
                       AdditionalValues(row, cfg.additional_cols),
                       cfg.tversky_alpha, cfg.tversky_beta)
    IN  IF cfg.use_jaro_winkler
        THEN IF primary < 51
             THEN {SeriesRound2(r) : r \in jaro_winkler_reassessment}
             ELSE {SeriesRound2(primary)}
        ELSE {primary}

\* the columns of one row after line 103, for a brand score bs
ScoredRow(row, cfg, bs) ==
    LET cleaned == clean_and_translate_raw_name(
                       row.raw_name, row.storefront_brand,
                       cfg.abbreviation_mapping)
        recommended == recommend_storefront_name(
                           row.raw_name, row.storefront_brand,
                           cfg.abbreviation_mapping)
        separated == separated_storefront_name(recommended,
                                               row.storefront_brand)
        name_score == combined_text_similarity(
                          row.storefront_name, separated,
                          AdditionalValues(row, cfg.additional_cols),
                          cfg.tversky_alpha, cfg.tversky_beta)
    IN  [row |-> row,
         cleaned_raw_name |-> cleaned,
         recommended_storefront_name |-> recommended,
         separated_brand_name |-> separated_brand_name(row),
         separated_storefront_name |-> separated,
         brand_score |-> bs,
         name_score |-> name_score,
         needs_review_brand |-> needs_review(bs),
         needs_review_name |-> needs_review(name_score)]

\* the frames process_data can hold after line 103
RECURSIVE Frames(_, _)
Frames(data, cfg) ==
    IF data = <<>> THEN {<<>>}
    ELSE {<<ScoredRow(Head(data), cfg, bs)>> \o rest :
              bs \in BrandScores(Head(data), cfg),
              rest \in Frames(Tail(data), cfg)}

\* lines 116-118: the two working columns dropped, the separated ones renamed
Returned(frame) ==
    [i \in DOMAIN frame |->
        [row |-> frame[i].row,
         cleaned_brand |-> frame[i].separated_brand_name,
         cleaned_name |-> frame[i].separated_storefront_name,
         brand_score |-> frame[i].brand_score,
         name_score |-> frame[i].name_score,
         needs_review_brand |-> frame[i].needs_review_brand,
         needs_review_name |-> frame[i].needs_review_name]]

\* the ways process_data can end: the first row whose raw name is no string
\* raises TypeError in re.sub (line 28, under the apply of line 54);
\* additional_cols[0], [1], [2] raise IndexError on a shorter list
process_data(data, cfg) ==
    IF \E i \in DOMAIN data : ~NotNa(data[i].raw_name)
    THEN {[raised |-> "TypeError", frame |-> <<>>, returned |-> <<>>]}
    ELSE IF Len(cfg.additional_cols) < 3
    THEN {[raised |-> "IndexError", frame |-> <<>>, returned |-> <<>>]}
    ELSE {[raised |-> "none", frame |-> f, returned |-> Returned(f)] :
              f \in Frames(AsTypeStr(data), cfg)}

(***************************************************************************)
(* State.                                                                  *)
(***************************************************************************)
VARIABLES
    raw_df,                \* the uploaded table (session file), rows in order
    columns,               \* the column names the table has
    form,                  \* the posted form of select_columns
    abbreviation_mapping,  \* the abbreviation table of the session
    outcome,               \* what select_columns answered, "pending" before
    raised,                \* the exception its handlers caught, "none" if none
    frame,                 \* process_data's frame after line 103
    processed_data,        \* the table process_data returned
    text,                  \* enhanced_clean_text: the argument,
    once,                  \*   the result of one pass,
    twice,                 \*   and of a pass over that result
    a, b,                  \* the scorer called on its own: its operands,
    additional_values,     \*   the auxiliary values of the row,
    tversky_alpha,         \*   and the two coefficients (floats)
    tversky_beta,
    scores,                \* the scores computed so far, in hundredths
    sf_connection,         \* the global connection: TRUE once connected
    query_in_progress,     \* the global flag of lines 23, 193, 243, 247
    query_result_queue,    \* the global queue.Queue, oldest result first
    thread,                \* each execute_query thread: its position and
                           \*   whether its try block succeeded
    answer,                \* what query_data last answered
    poll,                  \* where the running /progress request is, and
                           \*   (for the properties) the threads that were
                           \*   running when it read the flag
    response,              \* what /progress last returned
    session,               \* session['temp_file_path']: the run whose
                           \*   result /progress stored, 0 before
    pc                     \* which step of its run the model is at

vars ==
    <<raw_df, columns, form, abbreviation_mapping, outcome, raised, frame,
      processed_data, text, once, twice, a, b, additional_values,
      tversky_alpha, tversky_beta, scores, sf_connection, query_in_progress,
      query_result_queue, thread, answer, poll, response, session, pc>>

pipeline_vars ==
    <<raw_df, columns, form, abbreviation_mapping, outcome, raised, frame,
      processed_data>>

clean_vars == <<text, once, twice>>

score_vars ==
    <<a, b, additional_values, tversky_alpha, tversky_beta, scores>>

query_vars ==
    <<sf_connection, query_in_progress, query_result_queue, thread, answer,
      poll, response, session>>

\* a value no string, score or table equals
None == <<"<None>">>

\* an auxiliary selector left empty
NoColumn == ""

\* no score computed yet
NoScores == [k \in {} |-> 0]

(***************************************************************************)
(* select_columns (POST) with process_data.                                *)
(***************************************************************************)
RequiredCols == {"raw_brand", "raw_name", "storefront_brand", "storefront_name"}

AuxCols == <<"aux1", "aux2", "aux3">>

\* additional_cols = [col for col in [additional_col1, .., additional_col3] if col]
SelectedAdditionalCols(f) ==
    SelectSeq(<<f.additional_col1, f.additional_col2, f.additional_col3>>,
              LAMBDA col : col # NoColumn)

\* the arguments select_columns passes to process_data
Config(f, mapping) ==
    [additional_cols |-> SelectedAdditionalCols(f),
     abbreviation_mapping |-> mapping,
     tversky_alpha |-> ParseTenths(f.tversky_alpha),
     tversky_beta |-> ParseTenths(f.tversky_beta),
     use_jaro_winkler |-> f.use_jaro_winkler]

\* the POST branch of select_columns: KeyError for a selected column the
\* table lacks, any other exception of process_data goes to the generic
\* handler, otherwise the results page
SelectColumnsPost ==
    /\ pc = "pipeline"
    /\ outcome = "pending"
    /\ IF ~(RequiredCols \subseteq columns)
       THEN /\ outcome' = "redirect_select_columns"
            /\ raised' = "KeyError"
            /\ frame' = <<>>
            /\ processed_data' = <<>>
       ELSE \E r \in process_data(raw_df, Config(form, abbreviation_mapping)) :
                /\ outcome' = IF r.raised = "none" THEN "results"
                              ELSE "redirect_upload_file"
                /\ raised' = r.raised
                /\ frame' = r.frame
                /\ processed_data' = r.returned
    /\ UNCHANGED <<raw_df, columns, form, abbreviation_mapping, pc>>
    /\ UNCHANGED clean_vars
    /\ UNCHANGED score_vars
    /\ UNCHANGED query_vars

(***************************************************************************)
(* enhanced_clean_text applied once, then again to its own result.         *)
(***************************************************************************)
CleanOnce ==
    /\ pc = "clean"
    /\ once = None
    /\ once' = enhanced_clean_text(text)
    /\ UNCHANGED <<text, twice, pc>>
    /\ UNCHANGED pipeline_vars
    /\ UNCHANGED score_vars
    /\ UNCHANGED query_vars

CleanAgain ==
    /\ pc = "clean"
    /\ once # None
    /\ twice = None
    /\ twice' = enhanced_clean_text(once)
    /\ UNCHANGED <<text, once, pc>>
    /\ UNCHANGED pipeline_vars
    /\ UNCHANGED score_vars
    /\ UNCHANGED query_vars

(***************************************************************************)
(* The scorer called on its own.                                           *)
(***************************************************************************)
\* combined_text_similarity(a, b, additional_values)
CombinedTextSimilarity ==
    /\ pc = "score"
    /\ scores' = scores @@ ("combined" :>
           combined_text_similarity(a, b, additional_values,
                                    tversky_alpha, tversky_beta))
    /\ pc' = "scored"
    /\ UNCHANGED <<a, b, additional_values, tversky_alpha, tversky_beta>>
    /\ UNCHANGED pipeline_vars
    /\ UNCHANGED clean_vars
    /\ UNCHANGED query_vars

\* the same call with the operands and the coefficients both swapped
CombinedTextSimilaritySwapped ==
    /\ pc = "scored"
    /\ scores' = scores @@ ("swapped" :>
           combined_text_similarity(b, a, additional_values,
                                    tversky_beta, tversky_alpha))
    /\ pc' = "swapped"
    /\ UNCHANGED <<a, b, additional_values, tversky_alpha, tversky_beta>>
    /\ UNCHANGED pipeline_vars
    /\ UNCHANGED clean_vars
    /\ UNCHANGED query_vars

\* tversky_similarity(a, b) on the operands as they are
TverskySimilarity ==
    /\ pc = "swapped"
    /\ scores' = scores @@ ("direct" :>
           tversky_similarity(a, b, tversky_alpha, tversky_beta))
    /\ pc' = "done"
    /\ UNCHANGED <<a, b, additional_values, tversky_alpha, tversky_beta>>
    /\ UNCHANGED pipeline_vars
    /\ UNCHANGED clean_vars
    /\ UNCHANGED query_vars

(***************************************************************************)
(* Inputs.                                                                 *)
(***************************************************************************)
MaxWords == 3

MaxRows == 3

MaxTextLen == 7

MaxNameLen == 3

\* how many times query_data is requested
MaxQueries == 2

Diet == <<"D", "i", "e", "t">>

Coke == <<"C", "o", "k", "e">>

coke_lower == <<"c", "o", "k", "e">>

Cokes == <<"C", "o", "k", "e", "s">>

Pk == <<"P", "k">>

Pack == <<"P", "a", "c", "k">>

DietCoke == <<"D", "i", "e", "t", " ", "C", "o", "k", "e">>

CocaCola == <<"C", "o", "c", "a", " ", "C", "o", "l", "a">>

Pepsi == <<"P", "e", "p", "s", "i">>

PandG == <<"P", "&", "G">>

TwelveOz == <<"1", "2", " ", "o", "z">>

Soda == <<"S", "o", "d", "a">>

\* "Diet Coke $1.99  12 Pack", the scenario of the specification
ScenarioRawName ==
    <<"D", "i", "e", "t", " ", "C", "o", "k", "e", " ", "$", "1", ".", "9", "9">>
        \o <<" ", " ", "1", "2", " ", "P", "a", "c", "k">>

\* the text the scorer's operands are cut from
ScoreText == <<"a", "-", "B", "c", "d">>

\* the strings of at most n characters of alphabet
StringsUpTo(alphabet, n) == UNION {[1 .. k -> alphabet] : k \in 0 .. n}

\* the names of at most n words of words, single spaces between
RECURSIVE NamesUpTo(_, _)
NamesUpTo(words, n) ==
    IF n = 0 THEN {<<>>}
    ELSE NamesUpTo(words, n - 1)
         \cup {IF rest = <<>> THEN w ELSE w \o <<" ">> \o rest :
                   w \in words, rest \in NamesUpTo(words, n - 1)}

\* the pieces of s of at most n characters
Pieces(s, n) ==
    {SubSeq(s, i, j) : i \in 1 .. Len(s) + 1, j \in 0 .. Len(s)}
        \cap StringsUpTo(Range(s), n)

\* the tables of 1 .. n rows of rows
Tables(rows, n) == UNION {[1 .. k -> rows] : k \in 1 .. n}

Words == {Diet, Coke, Cokes, Pk}

CleanAlphabet == {"$", "1", ".", " ", "a"}

PkPack == <<[abbr |-> Pk, full_form |-> Pack]>>

NoAux == [c \in Range(AuxCols) |-> NaN]

SizeAndDepartment ==
    [c \in Range(AuxCols) |->
        IF c = "aux1" THEN TwelveOz ELSE IF c = "aux2" THEN NaN ELSE Soda]

AllAuxSelected(f) ==
    /\ f.additional_col1 = "aux1"
    /\ f.additional_col2 = "aux2"
    /\ f.additional_col3 = "aux3"

\* the forms: each auxiliary selector empty or naming its column, the
\* coefficients as decimals in tenths
Forms(alphas, betas, flags) ==
    [additional_col1 : {NoColumn, "aux1"},
     additional_col2 : {NoColumn, "aux2"},
     additional_col3 : {NoColumn, "aux3"},
     tversky_alpha : alphas,
     tversky_beta : betas,
     use_jaro_winkler : flags]

IdleClean == text = <<>> /\ once = None /\ twice = None

IdleScore ==
    /\ a = <<>>
    /\ b = <<>>
    /\ additional_values = <<>>
    /\ tversky_alpha = FFromInt(0)
    /\ tversky_beta = FFromInt(0)
    /\ scores = NoScores

\* the execute_query threads query_data may start, in the order it starts them
Runs == 1 .. MaxQueries

\* a thread before query_data starts it
NotStarted == [at |-> "not_started", status |-> "none"]

\* the execute_query threads that were started and have not yet put their
\* result on the queue
Undelivered == {t \in Runs : thread[t].at \in {"try", "clear", "put"}}

\* no /progress request running
NoPoll == [at |-> "idle", running |-> {}]

\* the globals of lines 22-24, no request made yet
IdleQuery ==
    /\ sf_connection = FALSE
    /\ query_in_progress = FALSE
    /\ query_result_queue = <<>>
    /\ thread = [t \in Runs |-> NotStarted]
    /\ answer = "none"
    /\ poll = NoPoll
    /\ response = "none"
    /\ session = 0

IdlePipeline ==
    /\ raw_df = <<>>
    /\ columns = {}
    /\ form = [additional_col1 |-> NoColumn, additional_col2 |-> NoColumn,
                additional_col3 |-> NoColumn, tversky_alpha |-> 5,
                tversky_beta |-> 5, use_jaro_winkler |-> FALSE]
    /\ abbreviation_mapping = <<>>
    /\ outcome = "pending"
    /\ raised = "none"
    /\ frame = <<>>
    /\ processed_data = <<>>

\* one row, many raw names and brands, the default coefficients
InitNames ==
    /\ raw_df \in
           {<<[raw_brand |-> CocaCola, raw_name |-> n,
               storefront_brand |-> br, storefront_name |-> DietCoke,
               aux |-> NoAux]>> :
                n \in NamesUpTo(Words, MaxWords) \cup {ScenarioRawName},
                br \in {Coke, coke_lower, <<>>}}
    /\ form \in {f \in Forms({5}, {5}, {FALSE}) : AllAuxSelected(f)}
    /\ abbreviation_mapping \in {<<>>, PkPack}

\* one row, few raw names, many cells, coefficients and both settings of
\* the reassessment
InitScores ==
    /\ raw_df \in
           {<<r>> : r \in [raw_brand : {Pepsi},
                           raw_name : {<<>>, DietCoke},
                           storefront_brand : {Coke, PandG, <<>>, NaN},
                           storefront_name : {DietCoke, <<>>, NaN},
                           aux : {NoAux, SizeAndDepartment}]}
    /\ form \in {f \in Forms({0, 5}, {0, 5, 23}, BOOLEAN) : AllAuxSelected(f)}
    /\ abbreviation_mapping = <<>>

\* select_columns posted for a one-row table with its three auxiliary
\* columns selected
Init ==
    /\ pc = "pipeline"
    /\ columns = RequiredCols \cup Range(AuxCols)
    /\ InitNames \/ InitScores
    /\ outcome = "pending"
    /\ raised = "none"
    /\ frame = <<>>
    /\ processed_data = <<>>
    /\ IdleClean
    /\ IdleScore
    /\ IdleQuery

Next == SelectColumnsPost

Spec == Init /\ [][Next]_vars

\* a good row, a row with an empty raw name, a row whose raw name is missing
BatchRows ==
    [raw_brand : {CocaCola},
     raw_name : {Cokes \o <<" ">> \o Diet, <<>>, NaN},
     storefront_brand : {Coke},
     storefront_name : {DietCoke},
     aux : {SizeAndDepartment}]

\* select_columns posted for a table of several rows, with any number of
\* auxiliary columns selected, the raw name column there or not
InitBatch ==
    /\ pc = "pipeline"
    /\ raw_df \in Tables(BatchRows, MaxRows)
    /\ columns \in {RequiredCols \cup Range(AuxCols),
                    (RequiredCols \ {"raw_name"}) \cup Range(AuxCols)}
    /\ form \in Forms({5}, {5}, {TRUE})
    /\ abbreviation_mapping = <<>>
    /\ outcome = "pending"
    /\ raised = "none"
    /\ frame = <<>>
    /\ processed_data = <<>>
    /\ IdleClean
    /\ IdleScore
    /\ IdleQuery

SpecBatch == InitBatch /\ [][Next]_vars

\* enhanced_clean_text on every short text over '$', a digit, '.', a space
\* and a letter
InitClean ==
    /\ pc = "clean"
    /\ text \in StringsUpTo(CleanAlphabet, MaxTextLen)
    /\ once = None
    /\ twice = None
    /\ IdlePipeline
    /\ IdleScore
    /\ IdleQuery

NextClean == CleanOnce \/ CleanAgain

SpecClean == InitClean /\ [][NextClean]_vars

\* the coefficient pairs (alpha, beta) of the scorer, as decimals in tenths
CoefficientPairs == {<<0, 0>>, <<5, 5>>, <<1, 23>>}

\* the scorer on every pair of pieces of ScoreText
InitScore ==
    /\ pc = "score"
    /\ a \in Pieces(ScoreText, MaxNameLen)
    /\ b \in Pieces(ScoreText, MaxNameLen)
    /\ additional_values \in {<<>>, <<NaN, <<"a", "1">>>>}
    /\ \E co \in CoefficientPairs :
           /\ tversky_alpha = ParseTenths(co[1])
           /\ tversky_beta = ParseTenths(co[2])
    /\ scores = NoScores
    /\ IdlePipeline
    /\ IdleClean
    /\ IdleQuery

NextScore ==
    \/ CombinedTextSimilarity
    \/ CombinedTextSimilaritySwapped
    \/ TverskySimilarity

SpecScore == InitScore /\ [][NextScore]_vars

(***************************************************************************)
(* select_retailer, query_data, the execute_query threads and /progress.   *)
(* The threads and the request handlers share query_in_progress and        *)
(* query_result_queue; each action is one read or write of them.           *)
(***************************************************************************)
\* select_retailer (POST): snowflake.connector.connect returns a connection,
\* or raises and leaves the global as it was
SelectRetailerPost ==
    /\ pc = "query"
    /\ \E connected \in BOOLEAN :
           /\ sf_connection' = (sf_connection \/ connected)
           /\ answer' = IF connected THEN "redirect_query_data"
                         ELSE "select_retailer.html"
    /\ UNCHANGED <<query_in_progress, query_result_queue, thread, poll,
                   response, session, pc>>
    /\ UNCHANGED pipeline_vars
    /\ UNCHANGED clean_vars
    /\ UNCHANGED score_vars

\* query_data: without a connection it redirects to index; with one it sets
\* the flag and starts the next execute_query thread
QueryData ==
    /\ pc = "query"
    /\ IF ~sf_connection
       THEN /\ answer' = "redirect_index"
            /\ UNCHANGED <<query_in_progress, thread>>
       ELSE \E t \in Runs :
                /\ thread[t] = NotStarted
                /\ \A u \in 1 .. t - 1 : thread[u] # NotStarted
                /\ query_in_progress' = TRUE
                /\ thread' = [thread EXCEPT ![t].at = "try"]
                /\ answer' = "progress.html"
    /\ UNCHANGED <<sf_connection, query_result_queue, poll, response,
                   session, pc>>
    /\ UNCHANGED pipeline_vars
    /\ UNCHANGED clean_vars
    /\ UNCHANGED score_vars

\* execute_query, lines 201-242: the query is read and saved, or something
\* in the try block raises
ExecuteQueryTry(t) ==
    /\ pc = "query"
    /\ thread[t].at = "try"
    /\ \E status \in {"success", "error"} :
           thread' = [thread EXCEPT ![t] = [at |-> "clear", status |-> status]]
    /\ UNCHANGED <<sf_connection, query_in_progress, query_result_queue,
                   answer, poll, response, session, pc>>
    /\ UNCHANGED pipeline_vars
    /\ UNCHANGED clean_vars
    /\ UNCHANGED score_vars

\* execute_query, line 243 or 247: query_in_progress = False
ExecuteQueryClear(t) ==
    /\ pc = "query"
    /\ thread[t].at = "clear"
    /\ query_in_progress' = FALSE
    /\ thread' = [thread EXCEPT ![t].at = "put"]
    /\ UNCHANGED <<sf_connection, query_result_queue, answer, poll, response,
                   session, pc>>
    /\ UNCHANGED pipeline_vars
    /\ UNCHANGED clean_vars
    /\ UNCHANGED score_vars

\* execute_query, line 244 or 248: query_result_queue.put(..)
ExecuteQueryPut(t) ==
    /\ pc = "query"
    /\ thread[t].at = "put"
    /\ query_result_queue' =
           Append(query_result_queue, [status |-> thread[t].status, run |-> t])
    /\ thread' = [thread EXCEPT ![t].at = "finished"]
    /\ UNCHANGED <<sf_connection, query_in_progress, answer, poll, response,
                   session, pc>>
    /\ UNCHANGED pipeline_vars
    /\ UNCHANGED clean_vars
    /\ UNCHANGED score_vars

\* progress, line 252: if query_in_progress
ProgressReadFlag ==
    /\ pc = "query"
    /\ poll.at = "idle"
    /\ IF query_in_progress
       THEN /\ response' = "Query is still in progress..."
            /\ poll' = NoPoll
       ELSE /\ response' = "none"
            /\ poll' = [at |-> "empty", running |-> Undelivered]
    /\ UNCHANGED <<sf_connection, query_in_progress, query_result_queue,
                   thread, answer, session, pc>>
    /\ UNCHANGED pipeline_vars
    /\ UNCHANGED clean_vars
    /\ UNCHANGED score_vars

\* progress, line 255: if not query_result_queue.empty(), else line 263
ProgressCheckQueue ==
    /\ pc = "query"
    /\ poll.at = "empty"
    /\ IF query_result_queue = <<>>
       THEN /\ response' = "Query status unknown."
            /\ poll' = NoPoll
       ELSE /\ response' = "none"
            /\ poll' = [poll EXCEPT !.at = "get"]
    /\ UNCHANGED <<sf_connection, query_in_progress, query_result_queue,
                   thread, answer, session, pc>>
    /\ UNCHANGED pipeline_vars
    /\ UNCHANGED clean_vars
    /\ UNCHANGED score_vars

\* progress, lines 256-262: query_result_queue.get() (which waits while the
\* queue is empty), then the session or the flash message
ProgressGet ==
    /\ pc = "query"
    /\ poll.at = "get"
    /\ query_result_queue # <<>>
    /\ query_result_queue' = Tail(query_result_queue)
    /\ IF Head(query_result_queue).status = "success"
       THEN /\ session' = Head(query_result_queue).run
            /\ response' = "Query completed."
       ELSE /\ session' = session
            /\ response' = "Query failed."
    /\ poll' = NoPoll
    /\ UNCHANGED <<sf_connection, query_in_progress, thread, answer, pc>>
    /\ UNCHANGED pipeline_vars
    /\ UNCHANGED clean_vars
    /\ UNCHANGED score_vars

\* the application started, nothing requested yet
InitQuery ==
    /\ pc = "query"
    /\ IdleQuery
    /\ IdlePipeline
    /\ IdleClean
    /\ IdleScore

NextQuery ==
    \/ SelectRetailerPost
    \/ QueryData
    \/ \E t \in Runs : ExecuteQueryTry(t)
    \/ \E t \in Runs : ExecuteQueryClear(t)
    \/ \E t \in Runs : ExecuteQueryPut(t)
    \/ ProgressReadFlag
    \/ ProgressCheckQueue
    \/ ProgressGet

SpecQuery == InitQuery /\ [][NextQuery]_vars

(***************************************************************************)
(* Properties.                                                             *)
(***************************************************************************)
\* the denominator tversky_similarity forms for the operands a and b
DirectTotal ==
    TverskyTotal(Cardinality(Range(a) \cap Range(b)),
                 Cardinality(Range(a) \ Range(b)),
                 Cardinality(Range(b) \ Range(a)),
                 tversky_alpha, tversky_beta)

\* C1: every score the scorer returns, through combined_text_similarity or
\* from tversky_similarity itself, is a whole number of hundredths between
\* 0.00 and 1.00, and it is 0 when the denominator
\* intersection + alpha * only_a + beta * only_b is 0.
C1_ScoreInUnitRange ==
    /\ \A k \in DOMAIN scores : scores[k] \in 0 .. 100
    /\ ("direct" \in DOMAIN scores /\ FIsZero(DirectTotal))
           => scores["direct"] = 0

\* C1 witness: non-empty operands whose denominator is 0 were scored
C1_Witness ==
    /\ "direct" \in DOMAIN scores
    /\ a # <<>>
    /\ b # <<>>
    /\ FIsZero(DirectTotal)
    /\ scores["direct"] = 0
    /\ scores["combined"] = 100

\* C2: the score of (a, b) under (alpha, beta) equals the score of (b, a)
\* under (beta, alpha), the auxiliary list the same.
C2_SwapSymmetry ==
    "swapped" \in DOMAIN scores => scores["swapped"] = scores["combined"]

\* C3: operands whose cleaned texts share no character score 0.0 through
\* combined_text_similarity.
C3_DisjointScoresZero ==
    ("combined" \in DOMAIN scores
        /\ Range(clean_text(a)) \cap Range(clean_text(b)) = {})
        => scores["combined"] = 0

\* C4: enhanced_clean_text applied to its own result changes nothing.
C4_Idempotent == twice # None => twice = once

\* the words of a name, split at its spaces
RECURSIVE SplitWords(_)
SplitWords(s) ==
    IF s = <<>> THEN <<>>
    ELSE IF \E i \in DOMAIN s : s[i] = " "
    THEN LET k == CHOOSE i \in DOMAIN s :
                      s[i] = " " /\ \A j \in 1 .. i - 1 : s[j] # " "
         IN  <<SubSeq(s, 1, k - 1)>> \o SplitWords(From(s, k + 1))
    ELSE <<s>>

\* the words of the normalised, expanded raw name other than the brand,
\* title-cased, single spaces between
RemainingWords(raw_name, brand, mapping) ==
    Title(Join(SelectSeq(
        SplitWords(ExpandAbbreviations(enhanced_clean_text(raw_name), mapping)),
        LAMBDA w : StrLower(w) # StrLower(brand))))

BrandIsAWord(raw_name, brand, mapping) ==
    /\ brand # <<>>
    /\ \E i \in DOMAIN SplitWords(ExpandAbbreviations(
                           enhanced_clean_text(raw_name), mapping)) :
           StrLower(SplitWords(ExpandAbbreviations(
               enhanced_clean_text(raw_name), mapping))[i]) = StrLower(brand)

\* C5: when the brand is a word of the normalised raw name, the cleaned
\* name is the remaining words, title-cased with single spaces, and the
\* recommended name is the brand, a space and the cleaned name.
C5_BrandWordRemoved ==
    outcome = "results" =>
        \A i \in DOMAIN frame :
            BrandIsAWord(frame[i].row.raw_name, frame[i].row.storefront_brand,
                         abbreviation_mapping)
            => /\ frame[i].cleaned_raw_name =
                      RemainingWords(frame[i].row.raw_name,
                                     frame[i].row.storefront_brand,
                                     abbreviation_mapping)
               /\ frame[i].recommended_storefront_name =
                      frame[i].row.storefront_brand \o <<" ">>
                          \o RemainingWords(frame[i].row.raw_name,
                                            frame[i].row.storefront_brand,
                                            abbreviation_mapping)

\* C6: a row whose raw name is empty gets name_score 0.0 and
\* needs_review_name 'Y'.
C6_EmptyRawNameScoresZero ==
    outcome = "results" =>
        \A i \in DOMAIN processed_data :
            raw_df[i].raw_name = <<>>
            => /\ processed_data[i].name_score = 0
               /\ processed_data[i].needs_review_name = "Y"

\* C7: with the four required columns there and every raw name a string,
\* select_columns ends with the scored table whether 0, 1, 2 or 3
\* auxiliary columns were selected.
C7_AnyAuxCountCompletes ==
    (/\ outcome # "pending"
     /\ RequiredCols \subseteq columns
     /\ \A i \in DOMAIN raw_df : NotNa(raw_df[i].raw_name))
        => /\ outcome = "results"
           /\ Len(processed_data) = Len(raw_df)

\* C8: a row whose raw name is no string fails alone: the batch still
\* ends with every row scored, the bad row flagged for review.
C8_MalformedRowFailsAlone ==
    (/\ outcome # "pending"
     /\ RequiredCols \subseteq columns
     /\ AllAuxSelected(form))
        => /\ outcome = "results"
           /\ Len(processed_data) = Len(raw_df)
           /\ \A i \in DOMAIN processed_data :
                  ~NotNa(raw_df[i].raw_name)
                  => processed_data[i].needs_review_name = "Y"

\* where old first occurs in s, 0 if nowhere
FirstAt(s, old) ==
    IF \E p \in 1 .. Len(s) - Len(old) + 1 : SubSeq(s, p, p + Len(old) - 1) = old
    THEN CHOOSE p \in 1 .. Len(s) - Len(old) + 1 :
             /\ SubSeq(s, p, p + Len(old) - 1) = old
             /\ \A r \in 1 .. p - 1 : SubSeq(s, r, r + Len(old) - 1) # old
    ELSE 0

\* s without the first occurrence of old
RemoveFirst(s, old) ==
    IF old = <<>> \/ FirstAt(s, old) = 0 THEN s
    ELSE SubSeq(s, 1, FirstAt(s, old) - 1) \o From(s, FirstAt(s, old) + Len(old))

\* s without any occurrence of old, found left to right, none overlapping
RECURSIVE RemoveEvery(_, _)
RemoveEvery(s, old) ==
    IF old = <<>> \/ FirstAt(s, old) = 0 THEN s
    ELSE SubSeq(s, 1, FirstAt(s, old) - 1)
         \o RemoveEvery(From(s, FirstAt(s, old) + Len(old)), old)

C10_BrandScoreIsOne ==
    outcome = "results" =>
        \A i \in DOMAIN processed_data :
            /\ processed_data[i].brand_score = 100
            /\ processed_data[i].needs_review_brand = "N"

\* C10 witness: a row was scored with the reassessment enabled, unequal
\* coefficients and a brand unlike the raw brand
C10_Witness ==
    /\ outcome = "results"
    /\ form.use_jaro_winkler
    /\ form.tversky_alpha # form.tversky_beta
    /\ raw_df[1].storefront_brand = Coke
    /\ raw_df[1].raw_brand = Pepsi
    /\ processed_data[1].brand_score = 100
    /\ processed_data[1].needs_review_brand = "N"

\* C11: once query_data has started an execute_query thread, no /progress
\* request that reads the flag while the thread has still to deliver its
\* result answers "Query status unknown." before the result is on the
\* queue; and every execute_query run ends having put exactly one result
\* on the queue.
C11_ProgressWaitsForResult ==
    [][/\ (poll.at = "empty" /\ response' = "Query status unknown.")
           => poll.running \cap Undelivered = {}
       /\ \A t \in Runs :
              (thread[t].at # "finished" /\ thread'[t].at = "finished")
              => /\ thread[t].at = "put"
                 /\ Len(query_result_queue') = Len(query_result_queue) + 1]_vars

\* every execute_query run ends with query_in_progress off
ExecuteQueryLeavesFlagOff ==
    [][\A t \in Runs :
           (thread[t].at # "finished" /\ thread'[t].at = "finished")
           => ~query_in_progress']_vars

\* every execute_query run ends having put one result on the queue
ExecuteQueryPutsOneResult ==
    [][\A t \in Runs :
           (thread[t].at # "finished" /\ thread'[t].at = "finished")
           => /\ thread[t].at = "put"
              /\ Len(query_result_queue') = Len(query_result_queue) + 1]_vars

====
